---------------------------- MODULE Spec2Model ----------------------------
(***************************************************************************)
(* Model of scipro.field.Field (src/scipro/field.py): a sampled complex    *)
(* signal with a domain tag, its FFT/IFFT pair with power normalisation,   *)
(* phase injection, power utilities and the derived phase views.           *)
(*                                                                         *)
(* Numbers are exact.  A coordinate is a rational n/d.  A real value is    *)
(* a + b*sqrt(3) with a, b rational, and a sample is re + i*im over such   *)
(* reals: this field holds every 12th root of unity, so the discrete       *)
(* Fourier transform of length 2, 3, 4 is computed exactly, as are         *)
(* exp(1j*phase) and arctan2 for phases that are multiples of pi/6.        *)
(* Phases are counted in units of pi/6 (pi = 6 units, 2*pi = 12 units).    *)
(* A sample array carries a factor sq: its values are sqrt(sq) * v[i],     *)
(* which is how y * sqrt(k) of normpower is kept exact, and a flag nan     *)
(* for the array of NaN that numpy's 0/0 and 0*inf produce.                *)
(***************************************************************************)
EXTENDS Integers, Sequences, FiniteSets, TLC

----------------------------------------------------------------------------
(* Rational arithmetic *)

IAbs(i) == IF i < 0 THEN -i ELSE i

RECURSIVE Gcd(_, _)
Gcd(a, b) == IF b = 0 THEN a ELSE Gcd(b, a % b)

Q(n, d) ==
    LET s == IF d < 0 THEN -1 ELSE 1
        g == Gcd(IAbs(n), IAbs(d))
    IN  [n |-> (s * n) \div g, d |-> (s * d) \div g]

QInt(i) == [n |-> i, d |-> 1]
QAdd(p, q) ==
    IF p.d = q.d THEN Q(p.n + q.n, p.d)
    ELSE LET g == Gcd(p.d, q.d)
         IN  Q(p.n * (q.d \div g) + q.n * (p.d \div g), (p.d \div g) * q.d)
QNeg(p) == [n |-> -p.n, d |-> p.d]
QSub(p, q) == QAdd(p, QNeg(q))
QMul(p, q) ==
    IF p.n = 0 \/ q.n = 0 THEN [n |-> 0, d |-> 1]
    ELSE LET g == Gcd(IAbs(p.n), q.d)
             k == Gcd(IAbs(q.n), p.d)
         IN  [n |-> (p.n \div g) * (q.n \div k), d |-> (p.d \div k) * (q.d \div g)]
QDiv(p, q) ==
    QMul(p, IF q.n < 0 THEN [n |-> -q.d, d |-> -q.n] ELSE [n |-> q.d, d |-> q.n])
QLess(p, q) == QSub(p, q).n < 0
QAbs(p) == [n |-> IAbs(p.n), d |-> p.d]
QSign(p) == IF p.n > 0 THEN 1 ELSE IF p.n < 0 THEN -1 ELSE 0

RECURSIVE QPow(_, _)
QPow(p, k) == IF k = 0 THEN QInt(1) ELSE QMul(p, QPow(p, k - 1))

----------------------------------------------------------------------------
(* Reals a + b*sqrt(3) *)

S(a, b) == [a |-> a, b |-> b]
SQ(q) == S(q, QInt(0))
SInt(i) == SQ(QInt(i))
SAdd(u, w) == S(QAdd(u.a, w.a), QAdd(u.b, w.b))
SNeg(u) == S(QNeg(u.a), QNeg(u.b))
SSub(u, w) == SAdd(u, SNeg(w))
SMul(u, w) ==
    IF u.b.n = 0 /\ w.b.n = 0 THEN S(QMul(u.a, w.a), u.b)
    ELSE
    S(QAdd(QMul(u.a, w.a), QMul(QInt(3), QMul(u.b, w.b))),
      QAdd(QMul(u.a, w.b), QMul(u.b, w.a)))
SScale(q, u) == S(QMul(q, u.a), QMul(q, u.b))
SIsZero(u) == u.a.n = 0 /\ u.b.n = 0
(* u = (g/l) * (A + B*sqrt(3)) with A, B whole and coprime: <<A, B, g/l>> *)
SParts(u) ==
    LET l == (u.a.d \div Gcd(u.a.d, u.b.d)) * u.b.d
        wa == u.a.n * (l \div u.a.d)
        wb == u.b.n * (l \div u.b.d)
        g == Gcd(IAbs(wa), IAbs(wb))
    IN  <<wa \div g, wb \div g, Q(g, l)>>

SInv(u) ==
    IF u.b.n = 0 THEN S(QDiv(QInt(1), u.a), u.b)
    ELSE LET t == SParts(u)
             nrm == QMul(t[3], QInt(t[1] * t[1] - 3 * t[2] * t[2]))
         IN  S(QDiv(QInt(t[1]), nrm), QDiv(QInt(-t[2]), nrm))
SDiv(u, w) == SMul(u, SInv(w))
SSign(u) ==
    LET sa == QSign(u.a)
        sb == QSign(u.b)
        t == SParts(u)
    IN  IF sb = 0 THEN sa
        ELSE IF sa = 0 \/ sa = sb THEN sb
        ELSE IF 3 * t[2] * t[2] < t[1] * t[1] THEN sa
        ELSE sb

----------------------------------------------------------------------------
(* Complex samples re + i*im *)

C(re, im) == [re |-> re, im |-> im]
CZero == C(SInt(0), SInt(0))
CAdd(z, w) == C(SAdd(z.re, w.re), SAdd(z.im, w.im))
CMul(z, w) ==
    C(SSub(SMul(z.re, w.re), SMul(z.im, w.im)),
      SAdd(SMul(z.re, w.im), SMul(z.im, w.re)))
CScale(q, z) == C(SScale(q, z.re), SScale(q, z.im))
CIsZero(z) == SIsZero(z.re) /\ SIsZero(z.im)
conjugate(z) == C(z.re, SNeg(z.im))
real(z) == z.re
imag(z) == z.im

(* cos(k*pi/6), k counted modulo 12 *)
Cos12(k) ==
    LET m == k % 12
        h == Q(1, 2)
    IN  CASE m = 0 -> SInt(1)
          [] m = 1 \/ m = 11 -> S(QInt(0), h)
          [] m = 2 \/ m = 10 -> SQ(h)
          [] m = 3 \/ m = 9 -> SInt(0)
          [] m = 4 \/ m = 8 -> SQ(QNeg(h))
          [] m = 5 \/ m = 7 -> S(QInt(0), QNeg(h))
          [] OTHER -> SInt(-1)

(* exp(1j * k*pi/6) *)
exp(k) == C(Cos12(k), Cos12(k - 3))


----------------------------------------------------------------------------
(* numpy floats: a finite real, or one of inf, -inf, nan *)

Fin(u) == [kind |-> "fin", val |-> u]
Inf == [kind |-> "inf", val |-> SInt(0)]
NInf == [kind |-> "ninf", val |-> SInt(0)]
NaN == [kind |-> "nan", val |-> SInt(0)]

(* p / q of two numpy floats: a zero divisor gives inf or nan, not an error *)
FDivide(p, q) ==
    IF p.kind = "nan" \/ q.kind = "nan" THEN NaN
    ELSE IF p.kind # "fin" /\ q.kind # "fin" THEN NaN
    ELSE IF q.kind # "fin" THEN Fin(SInt(0))
    ELSE IF p.kind # "fin"
         THEN IF (p.kind = "inf") = (SSign(q.val) >= 0) THEN Inf ELSE NInf
    ELSE IF SIsZero(q.val)
         THEN IF SIsZero(p.val) THEN NaN
              ELSE IF SSign(p.val) > 0 THEN Inf ELSE NInf
    ELSE Fin(SDiv(p.val, q.val))

----------------------------------------------------------------------------
(* Arrays.  Python index i is index i + 1 here. *)

(* numpy.array: the elements of f, each computed once *)
RECURSIVE Elements(_, _)
Elements(f, n) == IF n = 0 THEN <<>> ELSE Append(Elements(f, n - 1), f[n])

array(f) == Elements(f, Cardinality(DOMAIN f))

RECURSIVE SSum(_)
SSum(a) == IF a = <<>> THEN SInt(0) ELSE SAdd(Head(a), SSum(Tail(a)))

RECURSIVE CSum(_)
CSum(a) == IF a = <<>> THEN CZero ELSE CAdd(Head(a), CSum(Tail(a)))

(* numpy.fft.fftshift: roll by n // 2 *)
fftshift(a) ==
    LET n == Len(a)
    IN  [j \in 1..n |-> a[((j - 1 - (n \div 2)) % n) + 1]]

(* numpy.fft.ifftshift: roll by -(n // 2) *)
ifftshift(a) ==
    LET n == Len(a)
    IN  [j \in 1..n |-> a[((j - 1 + (n \div 2)) % n) + 1]]

(* numpy.fft.fftfreq(n, d): 0, 1, .., (n-1)//2, -(n//2), .., -1, over n*d *)
fftfreq(n, d) ==
    [j \in 1..n |->
        QDiv(QInt(IF j - 1 <= (n - 1) \div 2 THEN j - 1 ELSE j - 1 - n),
             QMul(QInt(n), d))]

(* numpy.linspace(lo, hi, n, False) *)
linspace(lo, hi, n) ==
    [j \in 1..n |-> QAdd(lo, QMul(QInt(j - 1), QDiv(QSub(hi, lo), QInt(n))))]

(* scipy.fftpack.fft: out[k] = sum_n a[n] * exp(-2j*pi*k*n/N) *)
fft(a) ==
    LET n == Len(a)
    IN  [k \in 1..n |->
            CSum([m \in 1..n |->
                    CMul(a[m], exp(-((12 \div n) * (k - 1) * (m - 1))))])]

(* scipy.fftpack.ifft: out[n] = (1/N) * sum_k a[k] * exp(2j*pi*k*n/N) *)
ifft(a) ==
    LET n == Len(a)
    IN  [m \in 1..n |->
            CScale(Q(1, n),
                   CSum([k \in 1..n |->
                           CMul(a[k], exp((12 \div n) * (k - 1) * (m - 1)))]))]

(* scipy.integrate.trapz(v, x) *)
trapz(v, x) ==
    SSum([j \in 1..(Len(v) - 1) |->
            SScale(QMul(QSub(x[j + 1], x[j]), Q(1, 2)), SAdd(v[j + 1], v[j]))])

(* numpy.diff *)
diff(a) == [j \in 1..(Len(a) - 1) |-> QSub(a[j + 1], a[j])]

(* abs(x[-1] - x[0]) / (len(x) - 1) *)
Spacing(x) == QDiv(QAbs(QSub(x[Len(x)], x[1])), QInt(Len(x) - 1))

(* u * sqrt(3) *)
STimesRoot3(u) == S(QMul(QInt(3), u.b), u.a)

(* numpy.arctan2(imag(z), real(z)) in units of pi/6, a value in -5..6, for *)
(* z = 0 (where numpy gives 0) and z on one of the twelve rays k*pi/6;     *)
(* 99 for any other z, whose phase is no whole number of units.            *)
arctan2(z) ==
    LET sr == SSign(real(z))
        si == SSign(imag(z))
    IN  IF si = 0 THEN (IF sr < 0 THEN 6 ELSE 0)
        ELSE IF sr = 0 THEN 3 * si
        ELSE IF z.re = STimesRoot3(z.im) THEN (IF si > 0 THEN 1 ELSE -5)
        ELSE IF z.re = SNeg(STimesRoot3(z.im)) THEN (IF si > 0 THEN 5 ELSE -1)
        ELSE IF z.im = STimesRoot3(z.re) THEN (IF si > 0 THEN 2 ELSE -4)
        ELSE IF z.im = SNeg(STimesRoot3(z.re)) THEN (IF si > 0 THEN 4 ELSE -2)
        ELSE 99

HasPhase(z) == arctan2(z) # 99

----------------------------------------------------------------------------
(* State *)

VARIABLES
    heap,    \* array storage: heap[a] is the array at address a
    objs,    \* the Field instances made so far, in order of creation
    origin,  \* history: how objs[i] was made (operation, receiver, asis)
    call     \* the last call: operation, receiver, arguments, outcome

vars == <<heap, objs, origin, call>>

(* The most Field instances one behaviour creates *)
MaxObjs == 3

(* Lengths whose roots of unity are in the number field of the model *)
Lengths == {2, 3, 4}

(* A sample array: the values sqrt(sq) * v[i]; nan: the samples are not finite *)
YCell(v) == [sq |-> SInt(1), v |-> v, nan |-> FALSE]

NoView == [kind |-> "none"]
NoCall == [op |-> "none", status |-> "ok", recv |-> 0, ret |-> 0, view |-> NoView]

Returned(op, r, args, h, o) ==
    /\ heap' = h
    /\ objs' = Append(objs, o)
    /\ origin' = Append(origin, [op |-> op, from |-> r,
                                  asis |-> op \in {"fft", "ifft"} /\ args])
    /\ call' = [op |-> op, status |-> "ok", recv |-> r, args |-> args,
                ret |-> Len(objs) + 1, view |-> NoView]

Raised(op, r, args, exc) ==
    /\ call' = [op |-> op, status |-> exc, recv |-> r, args |-> args,
                ret |-> 0, view |-> NoView]
    /\ UNCHANGED <<heap, objs, origin>>

Viewed(op, r, args, v) ==
    /\ call' = [op |-> op, status |-> "ok", recv |-> r, args |-> args,
                ret |-> 0, view |-> v]
    /\ UNCHANGED <<heap, objs, origin>>

----------------------------------------------------------------------------
(* Field methods.  A method takes the heap and the receiver and gives the   *)
(* heap after it and the object it returns.                                 *)

(* SciPro.__init__(self, x, y, ...): the instance holds the arrays x and y *)
SciPro_init(self, xa, ya) == [self EXCEPT !.hasxy = TRUE, !.x = xa, !.y = ya]

(* Field.__init__ after its arguments are in the heap: xa and yra are the  *)
(* addresses of x and yr, yi is the second component (alg: the imaginary   *)
(* parts; exp: the phases, in units of pi/6), packed says yr and yi were   *)
(* None and taken from x[1], x[2].                                         *)
Field_init(h, xa, yra, yi, packed, yform0, d, cf) ==
    LET self == [hasxy |-> FALSE, x |-> 0, y |-> 0, domain |-> d, central_freq |-> cf]
        yform1 == IF packed /\ yform0 = "None" THEN "alg" ELSE yform0
        yform == IF yform1 = "None" THEN "complex" ELSE yform1
        yr == h[yra]
        n == Len(yr.v)
    IN  CASE yform = "complex" ->
               [heap |-> h, ret |-> SciPro_init(self, xa, yra)]
          [] yform = "alg" ->
               [heap |-> Append(h, [yr EXCEPT !.v =
                            [j \in 1..n |-> CAdd(yr.v[j], C(SInt(0), SInt(yi[j])))]]),
                ret |-> SciPro_init(self, xa, Len(h) + 1)]
          [] yform = "exp" ->
               [heap |-> Append(h, [yr EXCEPT !.v =
                            [j \in 1..n |-> CMul(yr.v[j], exp(yi[j]))]]),
                ret |-> SciPro_init(self, xa, Len(h) + 1)]
          [] OTHER ->
               [heap |-> h, ret |-> self]

(* Mutant of copy: Field(self.x, self.y, ...), the arrays handed on, not copied *)
copy_shared(h, self) ==
    Field_init(h, self.x, self.y, <<>>, FALSE, "None", self.domain, self.central_freq)

(* Mutant of copy: Field(self.x.copy(), self.y.copy()), d and cf left at their defaults *)
copy_untagged(h, self) ==
    LET h2 == h \o <<h[self.x], h[self.y]>>
    IN  Field_init(h2, Len(h) + 1, Len(h) + 2, <<>>, FALSE, "None", "time", QInt(0))

(* Field.copy: Field(self.x.copy(), self.y.copy(), d=self.domain, cf=self.central_freq) *)
copy(h, self) ==
    LET h2 == h \o <<h[self.x], h[self.y]>>
    IN  Field_init(h2, Len(h) + 1, Len(h) + 2, <<>>, FALSE, "None",
                   self.domain, self.central_freq)

(* real(y * y.conjugate()) of a sample array *)
Abs2Values(yc) ==
    array([j \in 1..Len(yc.v) |->
              SMul(yc.sq, real(CMul(yc.v[j], conjugate(yc.v[j]))))])

(* Field.power *)
power(h, self) ==
    IF h[self.y].nan THEN NaN ELSE Fin(trapz(Abs2Values(h[self.y]), h[self.x]))

(* Mutant of TimesSqrt: y * k *)
TimesFactor(yc, k) ==
    IF yc.nan \/ k.kind # "fin" \/ SSign(k.val) < 0 THEN [yc EXCEPT !.nan = TRUE]
    ELSE IF SIsZero(k.val) THEN YCell([j \in 1..Len(yc.v) |-> CZero])
    ELSE [yc EXCEPT !.sq = SMul(yc.sq, SMul(k.val, k.val))]

(* y * sqrt(k) for a numpy float k *)
TimesSqrt(yc, k) ==
    IF yc.nan \/ k.kind # "fin" \/ SSign(k.val) < 0 THEN [yc EXCEPT !.nan = TRUE]
    ELSE IF SIsZero(k.val) THEN YCell([j \in 1..Len(yc.v) |-> CZero])
    ELSE [yc EXCEPT !.sq = SMul(yc.sq, k.val)]

(* Field.normpower *)
normpower(h, self, pwr) ==
    LET k == FDivide(pwr, power(h, self))
        c == copy(h, self)
    IN  [heap |-> Append(c.heap, TimesSqrt(h[self.y], k)),
         ret |-> [c.ret EXCEPT !.y = Len(c.heap) + 1]]

(* fftshift(fftfreq(self.x.size, dt) + self.central_freq) *)
fft_axis(x, cf) ==
    LET f == fftfreq(Len(x), Spacing(x))
    IN  array(fftshift([j \in 1..Len(x) |-> QAdd(f[j], cf)]))

(* fftshift(fft(ifftshift(self.y))) *)
fft_samples(v) == array(fftshift(fft(ifftshift(v))))

(* linspace(-0.5/fmin, 0.5/fmin, self.x.size, False) *)
ifft_axis(x) ==
    LET fmin == Spacing(x)
    IN  array(linspace(QDiv(Q(-1, 2), fmin), QDiv(Q(1, 2), fmin), Len(x)))

(* Mutant of ifft_samples: the two shifts exchanged *)
ifft_samples_swapped(v) == array(ifftshift(ifft(fftshift(v))))

(* fftshift(ifft(ifftshift(self.y))) *)
ifft_samples(v) == array(fftshift(ifft(ifftshift(v))))

(* Mutant of fft_allowed: no domain test *)
fft_unchecked(self) == TRUE

(* The domain test of Field.fft and of Field.ifft *)
fft_allowed(self) == self.domain = "time"
ifft_allowed(self) == self.domain = "freq"

(* The body of Field.fft and Field.ifft past the domain test: copy, retag, *)
(* new axis, new samples, and unless asis the power of self given to the   *)
(* result by normpower.                                                    *)
Transformed(h, self, asis, d, newx, newy) ==
    LET c == copy(h, self)
        h2 == c.heap \o <<newx, [h[self.y] EXCEPT !.v = newy]>>
        retval == [c.ret EXCEPT !.domain = d, !.x = Len(c.heap) + 1,
                                !.y = Len(c.heap) + 2]
    IN  IF asis THEN [heap |-> h2, ret |-> retval]
        ELSE normpower(h2, retval, power(h2, self))

(* Field.fft, domain = 'time' *)
Field_fft(h, self, asis) ==
    Transformed(h, self, asis, "freq",
                fft_axis(h[self.x], self.central_freq), fft_samples(h[self.y].v))

(* Field.ifft, domain = 'freq' *)
Field_ifft(h, self, asis) ==
    Transformed(h, self, asis, "time", ifft_axis(h[self.x]), ifft_samples(h[self.y].v))

(* sum_i ph[i] * ref**i, in units of pi/6 *)
RECURSIVE Poly(_, _, _)
Poly(ph, ref, i) ==
    IF i > Len(ph) THEN QInt(0)
    ELSE QAdd(QMul(QInt(ph[i]), QPow(ref, i - 1)), Poly(ph, ref, i + 1))

(* The phase array of add_phase: over x in the time domain, over           *)
(* x - central_freq in the frequency domain                                *)
PhaseOf(h, self, ph) ==
    LET x == h[self.x]
    IN  array([j \in 1..Len(x) |->
                  Poly(ph, IF self.domain = "time" THEN x[j]
                           ELSE QSub(x[j], self.central_freq), 1)])

(* The phase array of add_chirp: retval.x**2 * chirp_val *)
ChirpOf(x, chirp_val) ==
    array([j \in 1..Len(x) |-> QMul(QMul(x[j], x[j]), QInt(chirp_val))])

(* exp(1j*phase) is in the number field when every phase is a whole unit *)
WholePhases(phase) == \A j \in 1..Len(phase) : phase[j].d = 1

(* a *= exp(1j*phase): the array at address a is changed in place *)
TimesExpInPlace(h, a, phase) ==
    [h EXCEPT ![a].v = [j \in 1..Len(phase) |-> CMul(h[a].v[j], exp(phase[j].n))]]

(* Field.add_phase *)
add_phase(h, self, ph) ==
    LET c == copy(h, self)
    IN  [heap |-> TimesExpInPlace(c.heap, c.ret.y, PhaseOf(h, self, ph)),
         ret |-> c.ret]

(* Field.add_chirp *)
add_chirp(h, self, chirp_val) ==
    LET c == copy(h, self)
    IN  [heap |-> TimesExpInPlace(c.heap, c.ret.y, ChirpOf(c.heap[c.ret.x], chirp_val)),
         ret |-> c.ret]

----------------------------------------------------------------------------
(* Derived real views (Oscillogram in the time domain, Spectrum in the      *)
(* frequency domain), held by value.                                        *)

PiUnits == 6

RECURSIVE SPow(_, _)
SPow(u, k) == IF k = 0 THEN SInt(1) ELSE SMul(u, SPow(u, k - 1))

(* Oscillogram(x, y) / Spectrum(x, y, xtype='freq') *)
View(domain, x, y, nan) ==
    [kind |-> IF domain = "time" THEN "Oscillogram" ELSE "Spectrum",
     x |-> x, y |-> y, nan |-> nan]

(* Field.abs2(p), p even: real(y*conj(y)) ** (p/2.) *)
abs2(h, self, p) ==
    LET a == Abs2Values(h[self.y])
    IN  View(self.domain, h[self.x],
             [j \in 1..Len(a) |-> SPow(a[j], p \div 2)], h[self.y].nan)

(* arctan2(imag(self.y), real(self.y)), in units of pi/6 *)
RawPhase(yc) ==
    array([j \in 1..Len(yc.v) |->
              IF yc.nan THEN QInt(0) ELSE QInt(arctan2(yc.v[j]))])

HasPhases(yc) == yc.nan \/ \A j \in 1..Len(yc.v) : HasPhase(yc.v[j])

(* Field.phase *)
phase(h, self) ==
    [abs2(h, self, 2) EXCEPT !.y = RawPhase(h[self.y])]

(* Mutant of MergeFrom: the jump tests are >= and <= *)
RECURSIVE MergeFromInclusive(_, _, _, _, _)
MergeFromInclusive(phy, y, gap, shift, i) ==
    IF i > Len(phy) - 1 THEN y
    ELSE LET step == QSub(phy[i], phy[i + 1])
             lim == QMul(gap, QInt(PiUnits))
             sh == IF ~QLess(step, lim) THEN QAdd(shift, QInt(2 * PiUnits))
                   ELSE IF ~QLess(QNeg(lim), step) THEN QSub(shift, QInt(2 * PiUnits))
                   ELSE shift
         IN  MergeFromInclusive(phy, [y EXCEPT ![i + 1] = QAdd(y[i + 1], sh)],
                                gap, sh, i + 1)

(* Mutant of MergeFrom: no copy of the wrapped phases, the jump test reads *)
(* the array being changed                                                 *)
RECURSIVE MergeFromShifted(_, _, _, _, _)
MergeFromShifted(phy, y, gap, shift, i) ==
    IF i > Len(phy) - 1 THEN y
    ELSE LET step == QSub(y[i], y[i + 1])
             lim == QMul(gap, QInt(PiUnits))
             sh == IF QLess(lim, step) THEN QAdd(shift, QInt(2 * PiUnits))
                   ELSE IF QLess(step, QNeg(lim)) THEN QSub(shift, QInt(2 * PiUnits))
                   ELSE shift
         IN  MergeFromShifted(phy, [y EXCEPT ![i + 1] = QAdd(y[i + 1], sh)],
                              gap, sh, i + 1)

(* The loop of phasemerged from Python index i on: phy is the copy of the  *)
(* wrapped phases, y the array being changed in place.                     *)
RECURSIVE MergeFrom(_, _, _, _, _)
MergeFrom(phy, y, gap, shift, i) ==
    IF i > Len(phy) - 1 THEN y
    ELSE LET step == QSub(phy[i], phy[i + 1])
             lim == QMul(gap, QInt(PiUnits))
             sh == IF QLess(lim, step) THEN QAdd(shift, QInt(2 * PiUnits))
                   ELSE IF QLess(step, QNeg(lim)) THEN QSub(shift, QInt(2 * PiUnits))
                   ELSE shift
         IN  MergeFrom(phy, [y EXCEPT ![i + 1] = QAdd(y[i + 1], sh)], gap, sh, i + 1)

(* Field.phasemerged(gap, shift) *)
phasemerged(h, self, gap, shift) ==
    LET raw == RawPhase(h[self.y])
    IN  [abs2(h, self, 2) EXCEPT !.y = MergeFrom(raw, raw, gap, shift, 1)]

DefaultGap == Q(4, 3)

(* Field.instfreq *)
instfreq(h, self) ==
    LET retval == phasemerged(h, self, DefaultGap, QInt(0))
        den == QMul(QInt(-2 * PiUnits), Spacing(h[self.x]))
        d == diff(retval.y)
    IN  [retval EXCEPT !.y = [j \in 1..Len(d) |-> QDiv(d[j], den)],
                       !.x = SubSeq(retval.x, 1, Len(retval.x) - 1)]

----------------------------------------------------------------------------
(* Inputs *)

Domains == {"time", "freq"}
YForms == {"None", "complex", "alg", "exp", "polar"}
Steps == {1, 2}
Freqs == {1}
Powers == {2}
Phases == {<<3, 6>>}
Chirps == {3}
AbsExponents == {2, 4}
Gaps == {Q(4, 3), Q(1, 2)}
Shifts == {0, 3}
WrappedPhases == {-5, -2, 0, 4, 6}

I1 == C(SInt(0), SInt(1))
R1 == C(SInt(1), SInt(0))

(* The axis x0, x0 + dt, ..: centred on 0 as [-T/2, T/2), or starting at 0 *)
Axis(n, dt, centred) ==
    [j \in 1..n |-> QAdd(IF centred THEN Q(-(n * dt), 2) ELSE QInt(0),
                         QInt((j - 1) * dt))]

(* First components: all 0, and 1, 1j, 1, 1j.. *)
SamplesIn(n) ==
    { [j \in 1..n |-> CZero],
      [j \in 1..n |-> IF j % 2 = 1 THEN R1 ELSE I1] }

(* Second components: 0, 1, 2, .. *)
SecondIn(n) == { [j \in 1..n |-> j - 1] }

(* Amplitudes and phases of the signals whose phase is unwrapped *)
AmplitudesIn(n) ==
    { [j \in 1..n |-> R1],
      [j \in 1..n |-> IF j = n THEN CZero ELSE R1] }

PhasesIn(n) == [1..n -> WrappedPhases]

----------------------------------------------------------------------------
(* Operations.  A call is made on the Field returned last, so a behaviour  *)
(* is a chain of calls on successive results.                              *)

Receivers == {Len(objs)} \ {0}

Init ==
    /\ heap = <<>>
    /\ objs = <<>>
    /\ origin = <<>>
    /\ call = NoCall

(* Field(x, yr, yi, yform, d, cf): the caller's arrays x and yr are put at *)
(* addresses 1 and 2, then __init__ runs; the instance is handed to the    *)
(* caller whatever branch __init__ took.                                   *)
ConstructFrom(steps, cents, yrs, yis, yforms) ==
    /\ objs = <<>>
    /\ \E n \in Lengths, dt \in steps, centred \in cents, d \in Domains, cf \in Freqs :
       \E yr \in yrs[n], yi \in yis[n], yform \in yforms, packed \in BOOLEAN :
          LET m == Field_init(<<Axis(n, dt, centred), YCell(yr)>>, 1, 2, yi,
                              packed, yform, d, QInt(cf))
          IN  Returned("Field", 0, [yform |-> yform, packed |-> packed],
                       m.heap, m.ret)

Construct ==
    ConstructFrom(Steps, BOOLEAN, [n \in Lengths |-> SamplesIn(n)],
                  [n \in Lengths |-> SecondIn(n)], YForms)

(* Signals given as amplitude and phase, for the phase views *)
ConstructPolar ==
    ConstructFrom({2}, {TRUE}, [n \in Lengths |-> AmplitudesIn(n)],
                  [n \in Lengths |-> PhasesIn(n)], {"exp"})

Copy ==
    \E r \in Receivers :
        IF ~objs[r].hasxy THEN Raised("copy", r, <<>>, "AttributeError")
        ELSE /\ Len(objs) < MaxObjs
             /\ LET m == copy(heap, objs[r])
                IN  Returned("copy", r, <<>>, m.heap, m.ret)

AddPhase ==
    \E r \in Receivers, ph \in Phases :
        IF ~objs[r].hasxy THEN Raised("add_phase", r, ph, "AttributeError")
        ELSE /\ Len(objs) < MaxObjs
             /\ WholePhases(PhaseOf(heap, objs[r], ph))
             /\ LET m == add_phase(heap, objs[r], ph)
                IN  Returned("add_phase", r, ph, m.heap, m.ret)

AddChirp ==
    \E r \in Receivers, chirp_val \in Chirps :
        IF ~objs[r].hasxy THEN Raised("add_chirp", r, chirp_val, "AttributeError")
        ELSE /\ Len(objs) < MaxObjs
             /\ WholePhases(ChirpOf(heap[objs[r].x], chirp_val))
             /\ LET m == add_chirp(heap, objs[r], chirp_val)
                IN  Returned("add_chirp", r, chirp_val, m.heap, m.ret)

Normpower ==
    \E r \in Receivers, pwr \in Powers :
        IF ~objs[r].hasxy THEN Raised("normpower", r, pwr, "AttributeError")
        ELSE /\ Len(objs) < MaxObjs
             /\ LET m == normpower(heap, objs[r], Fin(SInt(pwr)))
                IN  Returned("normpower", r, pwr, m.heap, m.ret)

Fft ==
    \E r \in Receivers, asis \in BOOLEAN :
        IF ~fft_allowed(objs[r])
        THEN Raised("fft", r, asis, "fft can not be applied to a frequency domain")
        ELSE IF ~objs[r].hasxy THEN Raised("fft", r, asis, "AttributeError")
        ELSE /\ Len(objs) < MaxObjs
             /\ LET m == Field_fft(heap, objs[r], asis)
                IN  Returned("fft", r, asis, m.heap, m.ret)

Ifft ==
    \E r \in Receivers, asis \in BOOLEAN :
        IF ~ifft_allowed(objs[r])
        THEN Raised("ifft", r, asis, "ifft can not be applied to a time domain")
        ELSE IF ~objs[r].hasxy THEN Raised("ifft", r, asis, "AttributeError")
        ELSE /\ Len(objs) < MaxObjs
             /\ LET m == Field_ifft(heap, objs[r], asis)
                IN  Returned("ifft", r, asis, m.heap, m.ret)

Abs2 ==
    \E r \in Receivers, p \in AbsExponents :
        IF ~objs[r].hasxy THEN Raised("abs2", r, p, "AttributeError")
        ELSE Viewed("abs2", r, p, abs2(heap, objs[r], p))

Phase ==
    \E r \in Receivers :
        IF ~objs[r].hasxy THEN Raised("phase", r, <<>>, "AttributeError")
        ELSE /\ HasPhases(heap[objs[r].y])
             /\ Viewed("phase", r, <<>>, phase(heap, objs[r]))

Phasemerged ==
    \E r \in Receivers, gap \in Gaps, shift \in Shifts :
        IF ~objs[r].hasxy
        THEN Raised("phasemerged", r, [gap |-> gap, shift |-> shift], "AttributeError")
        ELSE /\ HasPhases(heap[objs[r].y])
             /\ Viewed("phasemerged", r, [gap |-> gap, shift |-> shift],
                       phasemerged(heap, objs[r], gap, QInt(shift)))

Instfreq ==
    \E r \in Receivers :
        IF ~objs[r].hasxy THEN Raised("instfreq", r, <<>>, "AttributeError")
        ELSE /\ HasPhases(heap[objs[r].y])
             /\ Viewed("instfreq", r, <<>>, instfreq(heap, objs[r]))

Next ==
    \/ Construct
    \/ Copy
    \/ AddPhase
    \/ AddChirp
    \/ Normpower
    \/ Fft
    \/ Ifft

Spec == Init /\ [][Next]_vars

(* The derived views of one constructed Field *)
NextView ==
    \/ ConstructPolar
    \/ Abs2
    \/ Phase
    \/ Phasemerged
    \/ Instfreq

SpecView == Init /\ [][NextView]_vars

----------------------------------------------------------------------------
(* Properties *)

XOf(i) == heap[objs[i].x]
YOf(i) == heap[objs[i].y]
Parent(i) == origin[i].from
DomainError == {"fft can not be applied to a frequency domain",
                "ifft can not be applied to a time domain"}
Normalised(i) == origin[i].op \in {"fft", "ifft"} /\ ~origin[i].asis
HasPower(i) ==
    LET p == power(heap, objs[i]) IN p.kind = "fin" /\ ~SIsZero(p.val)

(* The raw transform of objs[i]: what fft / ifft gives with asis=True *)
RawOf(op, i) ==
    IF op = "fft" THEN Field_fft(heap, objs[i], TRUE)
    ELSE Field_ifft(heap, objs[i], TRUE)

(* C1. Energy conservation: a Field returned by fft or ifft with the       *)
(* default asis=False, from a receiver of nonzero power, has the power of  *)
(* the receiver, and its samples are the raw transform times               *)
(* sqrt(receiver power / raw power).                                       *)
EnergyConserved ==
    \A i \in DOMAIN objs :
        (Normalised(i) /\ HasPower(Parent(i))) =>
            LET raw == RawOf(origin[i].op, Parent(i))
                ten == power(heap, objs[Parent(i)])
            IN  /\ power(heap, objs[i]) = ten
                /\ YOf(i) = TimesSqrt(raw.heap[raw.ret.y],
                                      FDivide(ten, power(raw.heap, raw.ret)))
                /\ XOf(i) = raw.heap[raw.ret.x]

(* A normalised fft whose raw result had another power than the receiver *)
EnergyConservedWitness ==
    \E i \in DOMAIN objs :
        /\ Normalised(i) /\ origin[i].op = "fft" /\ HasPower(Parent(i))
        /\ LET raw == RawOf("fft", Parent(i))
           IN  power(raw.heap, raw.ret) # power(heap, objs[Parent(i)])
        /\ Len(XOf(i)) = 3

(* The Fields i = ifft(p, asis=True), p = fft(g, asis=True) *)
RoundTrips ==
    { i \in DOMAIN objs :
        /\ origin[i].op = "ifft" /\ origin[i].asis
        /\ origin[Parent(i)].op = "fft" /\ origin[Parent(i)].asis }

Source(i) == Parent(Parent(i))

(* The window [-T/2, T/2) sampled with the spacing of x *)
CentredAxis(x) ==
    [j \in 1..Len(x) |->
        QAdd(QMul(Q(-Len(x), 2), Spacing(x)), QMul(QInt(j - 1), Spacing(x)))]

(* C2 as stated. Round trip: ifft(fft(f, asis=True), asis=True) has the    *)
(* samples of f and the coordinate axis of f, for any uniform axis.        *)
RoundTripExact ==
    \A i \in RoundTrips : YOf(i) = YOf(Source(i)) /\ XOf(i) = XOf(Source(i))

(* C2. Round trip, amended: ifft(fft(f, asis=True), asis=True) has the     *)
(* samples of f at the same indices, and its axis is the window            *)
(* [-T/2, T/2) with the spacing of f's axis, which is f's axis exactly     *)
(* when f's axis starts at -N*dt/2.                                        *)
RoundTrip ==
    \A i \in RoundTrips :
        /\ YOf(i) = YOf(Source(i))
        /\ XOf(i) = CentredAxis(XOf(Source(i)))
        /\ (XOf(i) = XOf(Source(i))) <=>
               (XOf(Source(i))[1] = CentredAxis(XOf(Source(i)))[1])

(* A round trip of an odd-length signal with nonzero samples on a centred axis *)
RoundTripWitness ==
    \E i \in RoundTrips :
        /\ Len(XOf(i)) = 3
        /\ XOf(i) = XOf(Source(i))
        /\ \E j \in 1..3 : ~CIsZero(YOf(i).v[j])
        /\ YOf(i).v[1] # YOf(i).v[2]

(* C3. Domain mismatch: fft on a Frequency-domain Field and ifft on a      *)
(* Time-domain Field raise the domain error, return no Field and leave     *)
(* every Field and array as it was, with asis False and True alike.        *)
DomainMismatchRaises ==
    [][((call'.op = "fft" /\ objs[call'.recv].domain = "freq")
        \/ (call'.op = "ifft" /\ objs[call'.recv].domain = "time"))
       => (/\ call'.status \in DomainError
           /\ call'.ret = 0
           /\ objs' = objs
           /\ heap' = heap)]_vars

(* ifft with the default asis=False was refused on a Time-domain Field *)
DomainMismatchWitness ==
    /\ call.op = "ifft" /\ call.args = FALSE
    /\ call.status \in DomainError
    /\ objs[call.recv].hasxy /\ objs[call.recv].domain = "time"

(* No two Fields share an array, and no Field uses one array for x and y *)
NoAliasing ==
    \A i, j \in DOMAIN objs :
        (objs[i].hasxy /\ objs[j].hasxy) =>
            /\ objs[i].x # objs[i].y
            /\ (i # j => {objs[i].x, objs[i].y} \cap {objs[j].x, objs[j].y} = {})

(* Every existing Field keeps its attributes and the contents of its arrays *)
ReceiversKept ==
    \A i \in DOMAIN objs :
        /\ objs'[i] = objs[i]
        /\ objs[i].hasxy =>
              /\ heap'[objs[i].x] = heap[objs[i].x]
              /\ heap'[objs[i].y] = heap[objs[i].y]

(* C4. Non-mutation and no aliasing: copy, add_phase, add_chirp,           *)
(* normpower, fft and ifft leave x, y, domain and central_freq of every    *)
(* existing Field as they were, and the Field they return has arrays of    *)
(* its own.                                                                *)
NonMutation == []NoAliasing /\ [][ReceiversKept]_vars

(* add_phase changed the samples of its result in place, then a further    *)
(* call was made on the result                                             *)
NonMutationWitness ==
    \E i \in DOMAIN objs :
        /\ origin[i].op = "add_phase"
        /\ YOf(i) # YOf(Parent(i))
        /\ i < Len(objs)

(* C5. Domain tags: fft returns a Frequency-domain Field and ifft a        *)
(* Time-domain one, normalised or not; copy, add_phase, add_chirp and      *)
(* normpower keep domain and central_freq; so fft on the result of a fft   *)
(* always fails and ifft on it never fails with a domain mismatch.         *)
DomainTags ==
    /\ \A i \in DOMAIN objs :
          /\ origin[i].op = "fft" => objs[i].domain = "freq"
          /\ origin[i].op = "ifft" => objs[i].domain = "time"
          /\ origin[i].op \in {"copy", "add_phase", "add_chirp", "normpower"} =>
                /\ objs[i].domain = objs[Parent(i)].domain
                /\ objs[i].central_freq = objs[Parent(i)].central_freq
    /\ (call.op = "fft" /\ origin[call.recv].op = "fft") => call.status \in DomainError
    /\ (call.op = "ifft" /\ origin[call.recv].op = "fft") => call.status \notin DomainError
    /\ (call.op = "ifft" /\ origin[call.recv].op = "ifft") => call.status \in DomainError
    /\ (call.op = "fft" /\ origin[call.recv].op = "ifft") => call.status \notin DomainError

(* fft was refused on the result of a normalised fft *)
DomainTagsWitness ==
    /\ call.op = "fft" /\ call.status \in DomainError
    /\ origin[call.recv].op = "fft" /\ ~origin[call.recv].asis

(* C6. Invalid construction: a yform that is none of 'complex', 'alg',   *)
(* 'exp' makes the constructor raise, and no instance, in particular none  *)
(* without x and y, reaches the caller.                                    *)
InvalidConstructionFatal ==
    /\ (call.op = "Field" /\ call.args.yform \notin {"None", "complex", "alg", "exp"})
          => (call.status # "ok" /\ call.ret = 0)
    /\ \A i \in DOMAIN objs : objs[i].hasxy

ZeroPower(i) ==
    LET p == power(heap, objs[i]) IN p.kind = "fin" /\ SIsZero(p.val)

(* C7. Degenerate power: normpower on a Field of zero power, and fft or    *)
(* ifft with the default normalisation on such a Field, fail and return    *)
(* no Field.                                                               *)
DegeneratePowerFails ==
    \A i \in DOMAIN objs :
        (origin[i].op = "normpower" \/ Normalised(i)) =>
            (objs[Parent(i)].hasxy => ~ZeroPower(Parent(i)))

(* The lengths on the instances whose construction stored x and y, and on  *)
(* the view of the last call                                               *)
LengthsAgree ==
    /\ \A i \in DOMAIN objs :
          objs[i].hasxy =>
              /\ Len(XOf(i)) = Len(YOf(i).v)
              /\ origin[i].op # "Field" => Len(XOf(i)) = Len(XOf(Parent(i)))
    /\ call.view.kind # "none" =>
          /\ Len(call.view.x) = Len(call.view.y)
          /\ Len(call.view.x) =
                IF call.op = "instfreq" THEN Len(XOf(call.recv)) - 1
                ELSE Len(XOf(call.recv))
          /\ call.view.x = SubSeq(XOf(call.recv), 1, Len(call.view.x))

(* C9. Length invariant: every Field reachable by construction and any     *)
(* sequence of operations has x and y of one length, Field-returning       *)
(* operations and abs2, phase, phasemerged keep the length N, and instfreq *)
(* returns N-1 values on the axis without its last point.                  *)
LengthInvariant ==
    /\ \A i \in DOMAIN objs : objs[i].hasxy
    /\ LengthsAgree

(* The pairs (k-1, k), k <= i, whose backward step of wrapped phase is     *)
(* above +gap*pi (up) or below -gap*pi (down)                              *)
JumpsUp(raw, lim, i) == {k \in 2..i : QLess(lim, QSub(raw[k - 1], raw[k]))}
JumpsDown(raw, lim, i) == {k \in 2..i : QLess(QSub(raw[k - 1], raw[k]), QNeg(lim))}
AtLimit(raw, lim, i) ==
    {k \in 2..i : QAbs(QSub(raw[k - 1], raw[k])) = lim}

Merged == call.op = "phasemerged" /\ call.status = "ok" /\ ~call.view.nan
MergedRaw == RawPhase(YOf(call.recv))
MergedLimit == QMul(call.args.gap, QInt(PiUnits))

(* C8. Unwrap boundedness: with shift = 0, a pair whose raw wrapped        *)
(* difference is within [-gap*pi, gap*pi] keeps that difference, and a     *)
(* pair outside it gets the raw difference plus 2*pi (backward step above  *)
(* gap*pi) or minus 2*pi (backward step below -gap*pi).                    *)
UnwrapBounded ==
    (Merged /\ call.args.shift = 0) =>
        \A i \in 2..Len(MergedRaw) :
            LET rd == QSub(MergedRaw[i], MergedRaw[i - 1])
                ud == QSub(call.view.y[i], call.view.y[i - 1])
            IN  /\ (i \notin JumpsUp(MergedRaw, MergedLimit, i)
                    /\ i \notin JumpsDown(MergedRaw, MergedLimit, i))
                      => (ud = rd /\ ~QLess(MergedLimit, QAbs(ud)))
                /\ i \in JumpsUp(MergedRaw, MergedLimit, i)
                      => ud = QAdd(rd, QInt(2 * PiUnits))
                /\ i \in JumpsDown(MergedRaw, MergedLimit, i)
                      => ud = QSub(rd, QInt(2 * PiUnits))

(* phasemerged with shift = 0 met a jump up, a jump down and a step        *)
(* exactly at the limit                                                    *)
UnwrapBoundedWitness ==
    /\ Merged /\ call.args.shift = 0
    /\ JumpsUp(MergedRaw, MergedLimit, Len(MergedRaw)) # {}
    /\ JumpsDown(MergedRaw, MergedLimit, Len(MergedRaw)) # {}
    /\ AtLimit(MergedRaw, MergedLimit, Len(MergedRaw)) # {}

(* C10. Unwrap running shift: phasemerged(gap, shift0) gives raw[0] at     *)
(* index 0 and, at i >= 1, raw[i] + shift0 + 2*pi*(U_i - D_i), U_i and D_i *)
(* counting the pairs up to i whose backward step of wrapped phase is      *)
(* above gap*pi and below -gap*pi; a step equal to the limit counts in     *)
(* neither.                                                                *)
UnwrapRunningShift ==
    Merged =>
        /\ call.view.y[1] = MergedRaw[1]
        /\ \A i \in 2..Len(MergedRaw) :
              call.view.y[i] =
                  QAdd(MergedRaw[i],
                       QInt(call.args.shift + 2 * PiUnits *
                            (Cardinality(JumpsUp(MergedRaw, MergedLimit, i))
                             - Cardinality(JumpsDown(MergedRaw, MergedLimit, i)))))

(* phasemerged with a nonzero shift0 met a jump up after a jump down and a *)
(* step exactly at the limit                                               *)
UnwrapRunningShiftWitness ==
    /\ Merged /\ call.args.shift # 0
    /\ \E k \in JumpsDown(MergedRaw, MergedLimit, Len(MergedRaw)) :
          k + 1 \in JumpsUp(MergedRaw, MergedLimit, Len(MergedRaw))
    /\ AtLimit(MergedRaw, MergedLimit, Len(MergedRaw)) # {}

=============================================================================
